---------------------------- MODULE Spec2Model ----------------------------
(***************************************************************************)
(* A model of freewilll/splitter: the ledger (CalculateBalance), the       *)
(* expense store (InMemoryDatabase / PgDatabase), the balance cache        *)
(* (InMemoryCache / RedisCache) and the two API handlers that use them     *)
(* (postExpenses, getBalance).                                             *)
(*                                                                         *)
(* Amounts are float64 in the code.  The model computes with exact         *)
(* rationals: every amount is an integer number of units of 1/Scale, where *)
(* Scale is the least common multiple of the possible participant counts,  *)
(* so that amount / n is exact.  float64 rounding error is not modelled.   *)
(***************************************************************************)
EXTENDS Integers, Sequences, FiniteSets, TLC

VARIABLES
    history,    \* ledger check: the []Expense handed to CalculateBalance
    balances,   \* ledger check: userID -> Balance computed from history, or None
    config,     \* "test": InMemoryDatabase + InMemoryCache (api tests, one request
                \*         at a time); "prod": PgDatabase + RedisCache (main.go)
    store,      \* the expense store: committed expenses, in commit order
    entries,    \* InMemoryCache.entries: userID -> Balance (a Go map)
    redis,      \* the redis keyspace: key -> [value, ttl, put]
    pc,         \* per request slot: the handler's position
    req,        \* per request slot: the request being served
    balance,    \* per request slot: the handler's local balance
    resp,       \* per request slot: the response written so far
    created,    \* history variable: ExpenseID the slot's postExpenses created (0: none)
    seen,       \* history variable: the ExpenseIDs the slot's last store read returned
    solo,       \* history variable: no other slot acted since the slot's current
                \* request began
    last,       \* history variable: the request that returned in the step just
                \* taken and its response, NoLast after any other step
    dbUsers,    \* the user store: [rows, serial]
    ret         \* what the CreateUser call of the step just taken returned and
                \* what postUsers answered, None after any other step

vars == <<history, balances, config, store, entries, redis, pc, req, balance,
          resp, created, seen, solo, last, dbUsers, ret>>

ledgerVars == <<history, balances>>
userVars == <<dbUsers, ret>>
systemVars == <<config, store, entries, redis, pc, req, balance, resp,
                created, seen, solo, last>>

\* The absent value of a record, a map entry or a response.
None == <<>>

(***************************************************************************)
(* Bounds and program constants                                            *)
(***************************************************************************)
NumUsers == 3        \* the users created by the schema and by the api test
MaxHistory == 2      \* ledger check: longest history handed to CalculateBalance
MaxExpenses == 2     \* system: most expenses the store holds
MaxUsers == 5        \* user check: most users stored and most ids drawn
cacheEntryTTL == 5   \* seconds
TicksPerTTL == 2     \* system: the clock's resolution, in Ticks per cacheEntryTTL

Users == 1..NumUsers
Procs == {1, 2}      \* request slots: handlers running at the same time
Clients == {1, 2}    \* the users who send requests; the others only take part
Amounts == {8, 42}   \* the amounts of the ledger test and the README

RECURSIVE Gcd(_, _)
Gcd(a, b) == IF b = 0 THEN a ELSE Gcd(b, a % b)

RECURSIVE LcmUpTo(_)
LcmUpTo(n) == IF n <= 1 THEN 1
              ELSE LET l == LcmUpTo(n - 1) IN (l * n) \div Gcd(l, n)

\* An amount a of the code is the integer a * Scale of the model.
Scale == LcmUpTo(NumUsers)

RECURSIVE SeqSum(_)
SeqSum(s) == IF s = <<>> THEN 0 ELSE Head(s) + SeqSum(Tail(s))

Range(s) == {s[i] : i \in DOMAIN s}

\* All orderings of a finite set, as sequences without repetition.
Orderings(S) == {s \in [1..Cardinality(S) -> S] : Range(s) = S}

(***************************************************************************)
(* ledger: Expense, Debt, Balance, CalculateBalance                        *)
(***************************************************************************)
Expense(id, owner, users, amount) ==
    [ExpenseID |-> id, OwnerID |-> owner, Users |-> users, Amount |-> amount,
     Description |-> "Food", CreatedAt |-> "2021-01-01T15:04:05Z"]

Debt(userID, amount) == [UserID |-> userID, Amount |-> amount]

\* Mutant of MapAdd: m[k] = x, the entry is assigned instead of added to.
MapAdd_Overwrite(m, k, x) ==
    IF k \in DOMAIN m THEN [m EXCEPT ![k] = x] ELSE m @@ (k :> x)

\* m[k] += x on a Go map: a missing key reads as 0 and is created.
MapAdd(m, k, x) ==
    IF k \in DOMAIN m THEN [m EXCEPT ![k] = @ + x] ELSE m @@ (k :> x)

\* debts[a][b] += x, allocating debts[a] where needed.
DebtsAdd(debts, a, b, x) ==
    IF a \in DOMAIN debts
    THEN [debts EXCEPT ![a] = MapAdd(@, b, x)]
    ELSE debts @@ (a :> (b :> x))

\* Mutant of userTookPart: no expense is skipped.
userTookPart_Always(expense, userID) == TRUE

userTookPart(expense, userID) ==
    \E i \in DOMAIN expense.Users : expense.Users[i] = userID

\* Mutant of perPersonAmount: the amount is split among the others only.
perPersonAmount_ExcludingOwner(expense) ==
    (expense.Amount * Scale) \div (Len(expense.Users) - 1)

\* float64(expense.Amount) / float64(l), in units of 1/Scale
perPersonAmount(expense) == (expense.Amount * Scale) \div Len(expense.Users)

\* Mutant of delta: the owner is credited with every share, its own included.
delta_OwnerKeepsOwnShare(expense, userID) ==
    IF expense.OwnerID = userID
    THEN Len(expense.Users) * perPersonAmount(expense)
    ELSE 0 - perPersonAmount(expense)

\* The change of userID's own balance by one expense it took part in.
delta(expense, userID) ==
    IF expense.OwnerID = userID
    THEN (Len(expense.Users) - 1) * perPersonAmount(expense)
    ELSE 0 - perPersonAmount(expense)

\* Mutant of AmendDebts: the owner's own entry of expense.Users is not skipped.
RECURSIVE AmendDebts_NoOwnerSkip(_, _, _)
AmendDebts_NoOwnerSkip(debts, expense, i) ==
    IF i > Len(expense.Users) THEN debts
    ELSE AmendDebts_NoOwnerSkip(
            DebtsAdd(DebtsAdd(debts, expense.Users[i], expense.OwnerID,
                              perPersonAmount(expense)),
                     expense.OwnerID, expense.Users[i],
                     0 - perPersonAmount(expense)),
            expense, i + 1)

\* The loop over expense.Users that amends the debts map, from index i on.
RECURSIVE AmendDebts(_, _, _)
AmendDebts(debts, expense, i) ==
    IF i > Len(expense.Users) THEN debts
    ELSE LET expenseUserID == expense.Users[i] IN
         IF expenseUserID = expense.OwnerID
         THEN AmendDebts(debts, expense, i + 1)
         ELSE AmendDebts(
                DebtsAdd(DebtsAdd(debts, expenseUserID, expense.OwnerID,
                                  perPersonAmount(expense)),
                         expense.OwnerID, expenseUserID,
                         0 - perPersonAmount(expense)),
                expense, i + 1)

\* The loop over all expenses: acc = [balance, debts] after the first i - 1.
RECURSIVE ExpenseLoop(_, _, _, _)
ExpenseLoop(acc, exps, userID, i) ==
    IF i > Len(exps) THEN acc
    ELSE IF ~userTookPart(exps[i], userID)
         THEN ExpenseLoop(acc, exps, userID, i + 1)
         ELSE ExpenseLoop(
                [balance |-> acc.balance + delta(exps[i], userID),
                 debts   |-> AmendDebts(acc.debts, exps[i], 1)],
                exps, userID, i + 1)

\* userDebts := debts[userID]: nil (no entries) when never allocated.
userDebts(debts, userID) ==
    IF userID \in DOMAIN debts THEN debts[userID] ELSE <<>>

\* Mutant of DebtSlice: the test is amount >= 0, a zero amount is a debit.
RECURSIVE DebtSlice_ZeroIsDebit(_, _, _)
DebtSlice_ZeroIsDebit(m, keys, wantDebit) ==
    IF keys = <<>> THEN <<>>
    ELSE LET k == Head(keys)
             rest == DebtSlice_ZeroIsDebit(m, Tail(keys), wantDebit)
         IN  IF m[k] >= 0
             THEN IF wantDebit THEN <<Debt(k, m[k])>> \o rest ELSE rest
             ELSE IF wantDebit THEN rest ELSE <<Debt(k, 0 - m[k])>> \o rest

\* Mutant of DebtSlice: a credit keeps the sign of the debts map (no negation).
RECURSIVE DebtSlice_SignedCredit(_, _, _)
DebtSlice_SignedCredit(m, keys, wantDebit) ==
    IF keys = <<>> THEN <<>>
    ELSE LET k == Head(keys)
             rest == DebtSlice_SignedCredit(m, Tail(keys), wantDebit)
         IN  IF m[k] > 0
             THEN IF wantDebit THEN <<Debt(k, m[k])>> \o rest ELSE rest
             ELSE IF wantDebit THEN rest ELSE <<Debt(k, m[k])>> \o rest

\* One pass of "for userID, amount := range userDebts" in the iteration order
\* keys, appending to the debit (wantDebit) or to the credit slice.
RECURSIVE DebtSlice(_, _, _)
DebtSlice(m, keys, wantDebit) ==
    IF keys = <<>> THEN <<>>
    ELSE LET k == Head(keys)
             rest == DebtSlice(m, Tail(keys), wantDebit)
         IN  IF m[k] > 0
             THEN IF wantDebit THEN <<Debt(k, m[k])>> \o rest ELSE rest
             ELSE IF wantDebit THEN rest ELSE <<Debt(k, 0 - m[k])>> \o rest

\* The end of CalculateBalance: the Balance built from the loop's result acc,
\* with the iteration order Go picks for "range userDebts" given by order, an
\* ordering of all users.
BalanceOf(acc, userID, order) ==
    LET m    == userDebts(acc.debts, userID)
        keys == SelectSeq(order, LAMBDA k : k \in DOMAIN m)
    IN  [Balance |-> acc.balance,
         Debit   |-> DebtSlice(m, keys, TRUE),
         Credit  |-> DebtSlice(m, keys, FALSE)]

\* CalculateBalance(expenses, userID) under the iteration order order.
CalculateBalance(exps, userID, order) ==
    BalanceOf(ExpenseLoop([balance |-> 0, debts |-> <<>>], exps, userID, 1),
              userID, order)

\* The iteration orders of a Go map keyed by user.
MapOrders == Orderings(Users)

\* The Balances CalculateBalance(expenses, userID) may return: one for each
\* iteration order.
CalculateBalances(exps, userID) ==
    LET acc == ExpenseLoop([balance |-> 0, debts |-> <<>>], exps, userID, 1)
    IN  {BalanceOf(acc, userID, order) : order \in MapOrders}

(***************************************************************************)
(* database: the user store, CreateUser                                    *)
(*                                                                         *)
(* An email is <<local part, domain>>.  dbUsers.rows are the stored users  *)
(* in the order they were added; dbUsers.serial is the last value of the   *)
(* sequence behind PgHandle's users.id (0 in InMemoryDatabase, which has   *)
(* none).                                                                  *)
(***************************************************************************)
ErrDuplicate == "Duplicate"

\* bcrypt.GenerateFromPassword: not the password itself.
Hashed(password) == <<"bcrypt", password>>

\* A row of users: InMemoryHandle stores userWithPassword{Email, Password},
\* leaving ID 0; PgHandle stores the serial id and the hashed password.
UserRow(cfg, id, email, password) ==
    IF cfg = "test" THEN [ID |-> 0, Email |-> email, Password |-> password]
    ELSE [ID |-> id, Email |-> email, Password |-> Hashed(password)]

Emails(rows) == {rows[i].Email : i \in DOMAIN rows}

\* Mutant of CreateUser: the email is not compared with the stored ones.
CreateUser_NoDuplicateCheck(cfg, us, email, password) ==
    [users |-> [rows |-> Append(us.rows,
                           UserRow(cfg, us.serial + 1, email, password)),
                serial |-> IF cfg = "test" THEN 0 ELSE us.serial + 1],
     id  |-> IF cfg = "test" THEN Len(us.rows) + 1 ELSE us.serial + 1,
     err |-> ""]

\* CreateUser(email, password): the store afterwards, the id and the error
\* returned.  InMemoryHandle compares with every stored email, then appends
\* and returns len + 1.  PgHandle inserts: the id is drawn from the sequence
\* first, and the UNIQUE index on email turns a second row with the same
\* email into unique_violation, so the drawn id is lost.
CreateUser(cfg, us, email, password) ==
    IF cfg = "test"
    THEN IF email \in Emails(us.rows)
         THEN [users |-> us, id |-> 0, err |-> ErrDuplicate]
         ELSE [users |-> [us EXCEPT !.rows =
                             Append(@, UserRow(cfg, 0, email, password))],
               id |-> Len(us.rows) + 1, err |-> ""]
    ELSE IF email \in Emails(us.rows)
         THEN [users |-> [us EXCEPT !.serial = @ + 1], id |-> 0,
               err |-> ErrDuplicate]
         ELSE [users |-> [rows |-> Append(us.rows,
                                     UserRow(cfg, us.serial + 1, email, password)),
                          serial |-> us.serial + 1],
               id |-> us.serial + 1, err |-> ""]

\* test1, test2, test3 @getstream.io
TestEmail(i) == <<<<"test", i>>, "getstream.io">>

RECURSIVE CreateUsers(_, _, _)
CreateUsers(cfg, us, i) ==
    IF i > NumUsers THEN us
    ELSE CreateUsers(cfg, CreateUser(cfg, us, TestEmail(i), "secret").users, i + 1)

NoUsers == [rows |-> <<>>, serial |-> 0]

\* The store with the three test users: created by the schema's INSERTs
\* (PgDatabase) or by the api test's dbh.CreateUser calls (InMemoryDatabase).
TestUsers(cfg) == CreateUsers(cfg, NoUsers, 1)

(***************************************************************************)
\* Participant lists as the stores hand them to the ledger: the owner once,
\* at least one other user, no duplicates; the owner first (PgHandle,
\* ledger test) or last (InMemoryHandle.CreateExpense).
OtherLists(owner) ==
    UNION {Orderings(S) : S \in (SUBSET (Users \ {owner})) \ {{}}}

ParticipantLists(owner) ==
    {<<owner>> \o o : o \in OtherLists(owner)} \cup
    {o \o <<owner>> : o \in OtherLists(owner)}

LedgerExpenses(id) ==
    UNION {{Expense(id, owner, users, amount) :
                users \in ParticipantLists(owner), amount \in Amounts} :
           owner \in Users}

\* The owner is a participant, once, and no participant is listed twice.
WellFormed(e) ==
    /\ \E i \in DOMAIN e.Users : e.Users[i] = e.OwnerID
    /\ \A i, j \in DOMAIN e.Users : e.Users[i] = e.Users[j] => i = j

\* The caller appends one more well-formed expense to the history.
LedgerAppend ==
    /\ Len(history) < MaxHistory
    /\ \E e \in LedgerExpenses(Len(history) + 1) :
          /\ WellFormed(e)
          /\ history' = Append(history, e)
    /\ balances' = None
    /\ UNCHANGED <<systemVars, userVars>>

\* The caller computes every user's balance from the history.
LedgerCompute ==
    /\ balances = None
    /\ \E order \in MapOrders :
          balances' = [u \in Users |-> CalculateBalance(history, u, order)]
    /\ UNCHANGED <<history, systemVars, userVars>>

LedgerNext == LedgerAppend \/ LedgerCompute

\* No history yet; the system's variables play no part in the ledger check.
LedgerInit ==
    /\ history = <<>>
    /\ balances = None
    /\ config = "test"
    /\ store = <<>>
    /\ entries = <<>>
    /\ redis = <<>>
    /\ pc = [p \in Procs |-> "idle"]
    /\ req = [p \in Procs |-> None]
    /\ balance = [p \in Procs |-> None]
    /\ resp = [p \in Procs |-> None]
    /\ created = [p \in Procs |-> 0]
    /\ seen = [p \in Procs |-> {}]
    /\ solo = [p \in Procs |-> FALSE]
    /\ last = None
    /\ dbUsers = TestUsers(config)
    /\ ret = None

LedgerSpec == LedgerInit /\ [][LedgerNext]_vars

(***************************************************************************)
(* database: InMemoryHandle and PgHandle                                   *)
(*                                                                         *)
(* store holds the committed expenses in commit order.  PgHandle inserts   *)
(* the expenses row outside its transaction and the expenses_users rows    *)
(* inside it; GetExpenses reads the join of the two tables, which yields   *)
(* an expense only through its expenses_users rows, and those become       *)
(* visible together, at the commit.  So CreateExpense is one step in both  *)
(* stores.                                                                 *)
(***************************************************************************)
\* Mutant of CreateExpense: the newest stored expense is replaced by the new
\* one.
CreateExpense_ReplacesLast(cfg, st, expense) ==
    LET e == [expense EXCEPT !.Users = Append(@, expense.OwnerID),
                             !.ExpenseID = Len(st) + 1]
    IN  IF st = <<>> THEN <<e>> ELSE Append(SubSeq(st, 1, Len(st) - 1), e)

\* CreateExpense: the store after expense is added.  InMemoryHandle appends
\* the owner to Users; PgHandle inserts the owner's row before the others'.
CreateExpense(cfg, st, expense) ==
    IF cfg = "test"
    THEN Append(st, [expense EXCEPT !.Users = Append(@, expense.OwnerID),
                                    !.ExpenseID = Len(st) + 1])
    ELSE Append(st, [expense EXCEPT !.Users = <<expense.OwnerID>> \o @,
                                    !.ExpenseID = Len(st) + 1])

\* The orders in which ranging over a Go map of the elements of st yields them.
Iterations(st) ==
    {[i \in DOMAIN st |-> st[f[i]]] : f \in Orderings(DOMAIN st)}

\* Mutant of GetExpenses: the read may be served from a view that lags behind
\* the store (any prefix of it).
GetExpenses_Lagging(cfg, st, userID) ==
    UNION {IF cfg = "test" THEN {SubSeq(st, 1, n)}
           ELSE Iterations(SubSeq(st, 1, n)) : n \in 0..Len(st)}

\* Mutant of GetExpenses: only the newest expense is returned, so that a
\* balance is computed from the single new expense.
GetExpenses_NewestOnly(cfg, st, userID) ==
    IF st = <<>> THEN {<<>>} ELSE {<<st[Len(st)]>>}

\* GetExpenses: the slices a call may return.  Neither store filters by
\* userID.  InMemoryHandle returns its slice; PgHandle collects the rows in
\* a map and returns them in the map's iteration order.
GetExpenses(cfg, st, userID) ==
    IF cfg = "test" THEN {st} ELSE Iterations(st)

(***************************************************************************)
(* cache: InMemoryCache and RedisCache                                     *)
(***************************************************************************)
\* Mutant of makeKey: the userID is left out of the key.
makeKey_NoUser(userID) == <<"key", 0>>

\* makeKey: fmt.Sprintf("key-%d", userID)
makeKey(userID) == <<"key", userID>>

\* json.Marshal of a ledger.Balance, by the struct's json tags.
Marshal(b) ==
    [balance |-> b.Balance,
     debit   |-> [i \in DOMAIN b.Debit |->
                    [user_id |-> b.Debit[i].UserID, amount |-> b.Debit[i].Amount]],
     credit  |-> [i \in DOMAIN b.Credit |->
                    [user_id |-> b.Credit[i].UserID, amount |-> b.Credit[i].Amount]]]

\* json.Unmarshal into a ledger.Balance.
Unmarshal(j) ==
    [Balance |-> j.balance,
     Debit   |-> [i \in DOMAIN j.debit |-> Debt(j.debit[i].user_id, j.debit[i].amount)],
     Credit  |-> [i \in DOMAIN j.credit |-> Debt(j.credit[i].user_id, j.credit[i].amount)]]

\* The zero value of ledger.Balance (a nil slice reads as an empty one).
ZeroBalance == [Balance |-> 0, Debit |-> <<>>, Credit |-> <<>>]

\* Mutant of InMemorySetBalance: an existing entry is kept.
InMemorySetBalance_KeepExisting(ents, b, userID) == ents @@ (userID :> b)

\* InMemoryCache.SetBalance: c.entries[userID] = balance
InMemorySetBalance(ents, b, userID) == (userID :> b) @@ ents

\* InMemoryCache.GetBalance: c.entries[userID]; the database is not used.
InMemoryGetBalance(ents, userID) ==
    IF userID \in DOMAIN ents THEN ents[userID] ELSE ZeroBalance

\* A ttl counts time in units of 1/TicksPerTTL seconds, so that one Tick,
\* cacheEntryTTL/TicksPerTTL seconds, is cacheEntryTTL units.
FreshTTL == cacheEntryTTL * TicksPerTTL

\* Mutant of Expire: entries do not age.
Expire_NoAgeing(m) == m

\* One Tick passes in the keyspace: every ttl drops, and an entry whose ttl
\* has run out is gone.
Expire(m) ==
    [k \in {x \in DOMAIN m : m[x].ttl > cacheEntryTTL} |->
        [m[k] EXCEPT !.ttl = @ - cacheEntryTTL,
                     !.put = IF @ # None /\ @.ttl > cacheEntryTTL
                             THEN [@ EXCEPT !.ttl = @ - cacheEntryTTL]
                             ELSE None]]

\* The history field put of the entry written for key: what the latest
\* SetBalance wrote under key, for as long as that write's own TTL runs;
\* None when there was none or its TTL has elapsed.  A miss refill
\* (caller "GetBalance") leaves it as it is.
PutAfter(rdb, key, value, caller) ==
    IF caller = "SetBalance" THEN [value |-> value, ttl |-> FreshTTL]
    ELSE IF key \in DOMAIN rdb THEN rdb[key].put ELSE None

\* Mutant of setBalanceWithRdb: SETNX, an existing entry is kept.
setBalanceWithRdb_KeepExisting(rdb, b, userID, caller) ==
    IF makeKey(userID) \in DOMAIN rdb THEN rdb
    ELSE (makeKey(userID) :>
            [value |-> Marshal(b), ttl |-> FreshTTL,
             put |-> PutAfter(rdb, makeKey(userID), Marshal(b), caller)]) @@ rdb

\* RedisCache.setBalanceWithRdb: SET key value EX cacheEntryTTL.  caller is
\* the method that writes (SetBalance, or GetBalance on a miss).
setBalanceWithRdb(rdb, b, userID, caller) ==
    (makeKey(userID) :>
        [value |-> Marshal(b), ttl |-> FreshTTL,
         put |-> PutAfter(rdb, makeKey(userID), Marshal(b), caller)]) @@ rdb

(***************************************************************************)
(* api: responses, requests, validation                                    *)
(***************************************************************************)
\* net/http status codes
StatusOK == 200
StatusCreated == 201
StatusBadRequest == 400
StatusConflict == 409
StatusMethodNotAllowed == 405

\* A response: code 0 until the header is written; the first WriteHeader wins.
NoResponse == [code |-> 0, body |-> <<>>]

WriteHeader(r, code) == [r EXCEPT !.code = IF @ = 0 THEN code ELSE @]

\* writeJSON: the first write sends an implicit 200 header.
writeJSON(r, data) == [WriteHeader(r, StatusOK) EXCEPT !.body = Append(@, data)]

writeError(r, code, message) == writeJSON(WriteHeader(r, code), [error |-> message])

Methods == {"GET", "POST"}
GoodTime == "2021-01-01T15:04:05Z"

\* createExpenseRequest bodies; None is a body json cannot decode.
Body(description, amount, createdAt, users) ==
    [Description |-> description, Amount |-> amount, CreatedAt |-> createdAt,
     Users |-> [i \in DOMAIN users |-> [ID |-> users[i]]]]

\* The bodies the clients send, the two expenses of the ledger test: user 1
\* pays a meal of 42 for itself and users 2 and 3, user 2 a coffee of 8 for
\* itself and user 1.
ValidBodies(userID) ==
    IF userID = 1 THEN {Body("Food", 42, GoodTime, <<2, 3>>)}
    ELSE {Body("Food", 8, GoodTime, <<1>>)}

InvalidBodies(userID) ==
    LET a == 42
        o == CHOOSE x \in Users : x # userID
    IN  {None,
         Body("", a, GoodTime, <<o>>),
         Body("Food", 0, GoodTime, <<o>>),
         Body("Food", a, "yesterday", <<o>>),
         Body("Food", a, GoodTime, <<>>),
         Body("Food", a, GoodTime, <<o, userID>>),
         Body("Food", a, GoodTime, <<o, o>>)}

\* Mutant of UsersError: the submitter may name itself among the others.
RECURSIVE UsersError_AllowsSelf(_, _, _)
UsersError_AllowsSelf(users, userID, i) ==
    IF i > Len(users) THEN ""
    ELSE IF \E j \in 1..(i - 1) : users[j].ID = users[i].ID
         THEN "duplicate user in user list"
    ELSE UsersError_AllowsSelf(users, userID, i + 1)

\* The loop that rejects self and duplicates, from index i on; "" when the
\* list passes.
RECURSIVE UsersError(_, _, _)
UsersError(users, userID, i) ==
    IF i > Len(users) THEN ""
    ELSE IF users[i].ID = userID THEN "user list must not include self"
    ELSE IF \E j \in 1..(i - 1) : users[j].ID = users[i].ID
         THEN "duplicate user in user list"
    ELSE UsersError(users, userID, i + 1)

\* Mutant of ValidationError: the amount is not checked.
ValidationError_AnyAmount(e, userID) ==
    IF e = None THEN "unable to decode and parse json"
    ELSE IF e.Description = "" THEN "description must not be empty"
    ELSE IF e.CreatedAt # GoodTime THEN "unable to parse created_at"
    ELSE IF Len(e.Users) < 1
         THEN "at least one other user must be included in an expense"
    ELSE UsersError(e.Users, userID, 1)

\* postExpenses' decoding and validation: the error message, "" when valid.
ValidationError(e, userID) ==
    IF e = None THEN "unable to decode and parse json"
    ELSE IF e.Description = "" THEN "description must not be empty"
    ELSE IF e.Amount <= 0 THEN "amount must be positive"
    ELSE IF e.CreatedAt # GoodTime THEN "unable to parse created_at"
    ELSE IF Len(e.Users) < 1
         THEN "at least one other user must be included in an expense"
    ELSE UsersError(e.Users, userID, 1)

\* The response after the handler's method check: a wrong method writes the
\* error and the handler goes on.
MethodCheck(method, wanted) ==
    IF method # wanted
    THEN writeError(NoResponse, StatusMethodNotAllowed, "method not allowed")
    ELSE NoResponse

(***************************************************************************)
(* The system: request slots running postExpenses and getBalance           *)
(***************************************************************************)
Idle(p) == pc[p] = "idle"

\* A new request takes the lowest idle slot.  The api tests run one request
\* at a time; the server runs a goroutine per request.
CanBegin(p) ==
    /\ Idle(p)
    /\ \A q \in Procs : q < p => ~Idle(q)
    /\ config = "test" => \A q \in Procs : Idle(q)

\* solo after a step of slot p (begins: the step starts p's request).
SoloAfter(p, begins) ==
    [q \in Procs |->
        IF q # p THEN FALSE
        ELSE IF begins THEN \A r \in Procs \ {p} : Idle(r) ELSE solo[p]]

IDs(exps) == {exps[i].ExpenseID : i \in DOMAIN exps}

NoRequest == [handler |-> "", method |-> "", userID |-> 0, body |-> None]

NoLast == [slot |-> 0, req |-> NoRequest, resp |-> NoResponse, created |-> 0,
           seen |-> {}, solo |-> FALSE, miss |-> FALSE]

\* The record of slot p's request as it returns with response r.
Returned(p, rq, r, cr, sn, so, miss) ==
    [slot |-> p, req |-> rq, resp |-> r, created |-> cr, seen |-> sn,
     solo |-> so, miss |-> miss]

\* postExpenses up to and including dbh.CreateExpense: the method check, the
\* decoding and validation, and the append to the store.
PostExpensesCall(p, methods, invalid) ==
    /\ CanBegin(p)
    /\ \E userID \in Clients, method \in methods :
       \E e \in ValidBodies(userID) \cup (IF invalid THEN InvalidBodies(userID) ELSE {}) :
          LET r   == MethodCheck(method, "POST")
              err == ValidationError(e, userID)
              rq  == [handler |-> "postExpenses", method |-> method,
                      userID |-> userID, body |-> e]
              so  == \A q \in Procs \ {p} : Idle(q)
          IN  IF err # ""
              THEN /\ last' = Returned(p, rq, writeError(r, StatusBadRequest, err),
                                       0, {}, so, FALSE)
                   /\ solo' = [q \in Procs |-> FALSE]
                   /\ UNCHANGED <<store, pc, req, resp, created>>
              ELSE /\ Len(store) < MaxExpenses
                   /\ store' = CreateExpense(config, store,
                                  Expense(0, userID,
                                          [i \in DOMAIN e.Users |-> e.Users[i].ID],
                                          e.Amount))
                   /\ req' = [req EXCEPT ![p] = rq]
                   /\ resp' = [resp EXCEPT ![p] = r]
                   /\ pc' = [pc EXCEPT ![p] = "created"]
                   /\ created' = [created EXCEPT ![p] = Len(store) + 1]
                   /\ solo' = SoloAfter(p, TRUE)
                   /\ last' = NoLast
    /\ UNCHANGED <<ledgerVars, userVars, config, entries, redis, balance, seen>>

\* postExpenses: expenses := dbh.GetExpenses(userID);
\*               balance := ledger.CalculateBalance(expenses, userID)
PostExpensesRead(p) ==
    /\ pc[p] = "created"
    /\ \E exps \in GetExpenses(config, store, req[p].userID) :
       \E b \in CalculateBalances(exps, req[p].userID) :
          /\ balance' = [balance EXCEPT ![p] = b]
          /\ seen' = [seen EXCEPT ![p] = IDs(exps)]
    /\ pc' = [pc EXCEPT ![p] = "computed"]
    /\ solo' = SoloAfter(p, FALSE)
    /\ last' = NoLast
    /\ UNCHANGED <<ledgerVars, userVars, config, store, entries, redis, req, resp, created>>

\* f with slot p's entry taken out: the slots above p move down by one and
\* the highest slot gets the idle value, so the busy slots are always the
\* lowest ones.
Shift(f, p, idle) ==
    [q \in Procs |-> IF q < p THEN f[q]
                     ELSE IF q + 1 \in Procs THEN f[q + 1] ELSE idle]

\* Slot p's handler returns: its locals are gone.
Release(p) ==
    /\ pc' = Shift(pc, p, "idle")
    /\ req' = Shift(req, p, NoRequest)
    /\ resp' = Shift(resp, p, NoResponse)
    /\ balance' = Shift(balance, p, None)
    /\ created' = Shift(created, p, 0)
    /\ seen' = Shift(seen, p, {})
    /\ solo' = [q \in Procs |-> FALSE]

\* postExpenses: api.cache.SetBalance(balance, userID); w.WriteHeader(201)
PostExpensesWrite(p) ==
    /\ pc[p] = "computed"
    /\ IF config = "test"
       THEN /\ entries' = InMemorySetBalance(entries, balance[p], req[p].userID)
            /\ UNCHANGED redis
       ELSE /\ redis' = setBalanceWithRdb(redis, balance[p], req[p].userID, "SetBalance")
            /\ UNCHANGED entries
    /\ last' = Returned(p, req[p], WriteHeader(resp[p], StatusCreated),
                        created[p], seen[p], solo[p], FALSE)
    /\ Release(p)
    /\ UNCHANGED <<ledgerVars, userVars, config, store>>

\* getBalance up to the cache lookup: InMemoryCache.GetBalance returns at
\* once; RedisCache.GetBalance returns on a hit and goes on on redis.Nil.
GetBalanceCall(p, methods) ==
    /\ CanBegin(p)
    /\ \E userID \in Clients, method \in methods :
          LET r  == MethodCheck(method, "GET")
              rq == [handler |-> "getBalance", method |-> method,
                     userID |-> userID, body |-> None]
              so == \A q \in Procs \ {p} : Idle(q)
          IN  IF config = "test"
              THEN /\ last' = Returned(p, rq,
                          writeJSON(r, Marshal(InMemoryGetBalance(entries, userID))),
                          0, {}, so, userID \notin DOMAIN entries)
                   /\ solo' = [q \in Procs |-> FALSE]
                   /\ UNCHANGED <<pc, req, resp>>
              ELSE IF makeKey(userID) \in DOMAIN redis
              THEN /\ last' = Returned(p, rq,
                          writeJSON(r, Marshal(Unmarshal(redis[makeKey(userID)].value))),
                          0, {}, so, FALSE)
                   /\ solo' = [q \in Procs |-> FALSE]
                   /\ UNCHANGED <<pc, req, resp>>
              ELSE /\ req' = [req EXCEPT ![p] = rq]
                   /\ resp' = [resp EXCEPT ![p] = r]
                   /\ pc' = [pc EXCEPT ![p] = "miss"]
                   /\ solo' = SoloAfter(p, TRUE)
                   /\ last' = NoLast
    /\ UNCHANGED <<ledgerVars, userVars, config, store, entries, redis, balance, created, seen>>

\* RedisCache.GetBalance on redis.Nil: expenses := dbh.GetExpenses(userID);
\*                                     balance := ledger.CalculateBalance(...)
GetBalanceRead(p) ==
    /\ pc[p] = "miss"
    /\ \E exps \in GetExpenses(config, store, req[p].userID) :
       \E b \in CalculateBalances(exps, req[p].userID) :
          /\ balance' = [balance EXCEPT ![p] = b]
          /\ seen' = [seen EXCEPT ![p] = IDs(exps)]
    /\ pc' = [pc EXCEPT ![p] = "refill"]
    /\ solo' = SoloAfter(p, FALSE)
    /\ last' = NoLast
    /\ UNCHANGED <<ledgerVars, userVars, config, store, entries, redis, req, resp, created>>

\* RedisCache.GetBalance on redis.Nil: r.setBalanceWithRdb(rdb, balance, userID);
\* return balance; getBalance writes it.
GetBalanceFill(p) ==
    /\ pc[p] = "refill"
    /\ redis' = setBalanceWithRdb(redis, balance[p], req[p].userID, "GetBalance")
    /\ last' = Returned(p, req[p], writeJSON(resp[p], Marshal(balance[p])),
                        0, seen[p], solo[p], TRUE)
    /\ Release(p)
    /\ UNCHANGED <<ledgerVars, userVars, config, store, entries>>

\* The clock ticks: redis ages its entries.
Tick ==
    /\ config = "prod"
    /\ redis # <<>>
    /\ redis' = Expire(redis)
    /\ last' = NoLast
    /\ UNCHANGED <<ledgerVars, userVars, config, store, entries, pc, req, balance, resp,
                   created, seen, solo>>

\* The requests of well-behaved clients: the handler's own method, a body
\* that passes validation.
Step(p) ==
    \/ PostExpensesCall(p, {"POST"}, FALSE)
    \/ PostExpensesRead(p)
    \/ PostExpensesWrite(p)
    \/ GetBalanceCall(p, {"GET"})
    \/ GetBalanceRead(p)
    \/ GetBalanceFill(p)

Next == (\E p \in Procs : Step(p)) \/ Tick

\* NewInMemoryDatabase + NewInMemoryCache (the api tests) or NewPgDatabase +
\* NewRedisCache (main.go): no expenses, no cache entries, no request.
Init ==
    /\ history = <<>>
    /\ balances = None
    /\ config \in {"test", "prod"}
    /\ store = <<>>
    /\ entries = <<>>
    /\ redis = <<>>
    /\ pc = [p \in Procs |-> "idle"]
    /\ req = [p \in Procs |-> NoRequest]
    /\ balance = [p \in Procs |-> None]
    /\ resp = [p \in Procs |-> NoResponse]
    /\ created = [p \in Procs |-> 0]
    /\ seen = [p \in Procs |-> {}]
    /\ solo = [p \in Procs |-> FALSE]
    /\ last = NoLast
    /\ dbUsers = TestUsers(config)
    /\ ret = None

Spec == Init /\ [][Next]_vars

(***************************************************************************)
(* The api tests' wiring alone, with requests that are served to the end   *)
(***************************************************************************)
\* NewInMemoryDatabase + NewInMemoryCache: no expenses, no cache entries.
TestInit ==
    /\ history = <<>>
    /\ balances = None
    /\ config = "test"
    /\ store = <<>>
    /\ entries = <<>>
    /\ redis = <<>>
    /\ pc = [p \in Procs |-> "idle"]
    /\ req = [p \in Procs |-> NoRequest]
    /\ balance = [p \in Procs |-> None]
    /\ resp = [p \in Procs |-> NoResponse]
    /\ created = [p \in Procs |-> 0]
    /\ seen = [p \in Procs |-> {}]
    /\ solo = [p \in Procs |-> FALSE]
    /\ last = NoLast
    /\ dbUsers = TestUsers(config)
    /\ ret = None

\* One request at a time, of any kind: either method, bodies that pass
\* validation and bodies that do not.  RedisCache.GetBalance's miss path and
\* the clock play no part: InMemoryCache has neither.
TestNext ==
    \/ PostExpensesCall(1, Methods, TRUE)
    \/ PostExpensesRead(1)
    \/ PostExpensesWrite(1)
    \/ GetBalanceCall(1, Methods)

\* net/http serves every request to the end: a handler that can take its
\* next step takes it.
FairTestSpec == TestInit /\ [][TestNext]_vars /\ WF_vars(TestNext)

(***************************************************************************)
(* User check: CreateUser and postUsers on a bounded user store            *)
(***************************************************************************)
\* emailRegex on an email <<local part, domain>>: neither part is empty.
isEmailValid(e) == e[1][1] # "" /\ e[2] # ""

\* The emails clients register with: test, test1, test2 @getstream.io, and
\* @getstream.io, which emailRegex does not match.
RequestEmails == {TestEmail(0), TestEmail(1), TestEmail(2), <<<<"", 0>>, "getstream.io">>}

\* A password of six characters and one that is too short for postUsers.
Passwords == {"secret", "short"}

\* What a step that called (or, rejecting the request, did not call)
\* CreateUser leaves in ret.
UserReturn(handler, email, called, id, err, r) ==
    [handler |-> handler, email |-> email, called |-> called, id |-> id,
     err |-> err, resp |-> r]

\* The store has room and the sequence has ids left.
CanCreate == Len(dbUsers.rows) < MaxUsers /\ dbUsers.serial < MaxUsers

\* dbh.CreateUser(email, password), called on the handle as the api tests do.
TestCreateUser ==
    /\ config = "test"
    /\ CanCreate
    /\ \E email \in RequestEmails, password \in Passwords :
          LET res == CreateUser(config, dbUsers, email, password)
          IN  /\ dbUsers' = res.users
              /\ ret' = UserReturn("CreateUser", email, TRUE, res.id, res.err,
                                   NoResponse)
    /\ UNCHANGED <<ledgerVars, systemVars>>

\* postUsers: decode, validate the password and the email, dbh.CreateUser,
\* and the answer; after the 409 of a duplicate the handler goes on to write
\* the userResponse.
PostUsers ==
    /\ CanCreate
    /\ \E email \in RequestEmails, password \in Passwords, decodes \in BOOLEAN :
          IF ~decodes
          THEN /\ ret' = UserReturn("postUsers", email, FALSE, 0, "",
                            writeError(NoResponse, StatusBadRequest,
                                       "unable to decode and parse json"))
               /\ UNCHANGED dbUsers
          ELSE IF Len(password) < 6
          THEN /\ ret' = UserReturn("postUsers", email, FALSE, 0, "",
                            writeError(NoResponse, StatusBadRequest,
                                "invalid password: it must be at least 6 characters"))
               /\ UNCHANGED dbUsers
          ELSE IF ~isEmailValid(email)
          THEN /\ ret' = UserReturn("postUsers", email, FALSE, 0, "",
                            writeError(NoResponse, StatusBadRequest,
                                       "invalid email address"))
               /\ UNCHANGED dbUsers
          ELSE LET res == CreateUser(config, dbUsers, email, password)
                   r   == IF res.err = ErrDuplicate
                          THEN writeError(NoResponse, StatusConflict,
                                          "a user with that email already exists")
                          ELSE NoResponse
               IN  /\ dbUsers' = res.users
                   /\ ret' = UserReturn("postUsers", email, TRUE, res.id, res.err,
                                writeJSON(r, [id |-> res.id, email |-> email]))
    /\ UNCHANGED <<ledgerVars, systemVars>>

UserNext == TestCreateUser \/ PostUsers

\* A new InMemoryDatabase has no users; the schema gives PgDatabase the
\* three test users.
UserInit ==
    /\ history = <<>>
    /\ balances = None
    /\ config \in {"test", "prod"}
    /\ store = <<>>
    /\ entries = <<>>
    /\ redis = <<>>
    /\ pc = [p \in Procs |-> "idle"]
    /\ req = [p \in Procs |-> NoRequest]
    /\ balance = [p \in Procs |-> None]
    /\ resp = [p \in Procs |-> NoResponse]
    /\ created = [p \in Procs |-> 0]
    /\ seen = [p \in Procs |-> {}]
    /\ solo = [p \in Procs |-> FALSE]
    /\ last = NoLast
    /\ dbUsers = IF config = "test" THEN NoUsers ELSE TestUsers(config)
    /\ ret = None

UserSpec == UserInit /\ [][UserNext]_vars

(***************************************************************************)
(* The server with a redis that can fail                                   *)
(***************************************************************************)
\* rdb.Get(ctx, key).Result(): the value and the error.  outcome is what the
\* connection does: "ok" (redis answers) or "down" (no answer: a network or
\* server error).
GetResult(rdb, key, outcome) ==
    IF outcome = "down" THEN [val |-> None, err |-> "error"]
    ELSE IF key \in DOMAIN rdb THEN [val |-> rdb[key].value, err |-> "nil"]
    ELSE [val |-> None, err |-> "redis.Nil"]

\* Mutant of LookupBranch: every error is taken for a miss.
LookupBranch_AnyErrorIsMiss(err) ==
    IF err # "nil" THEN "refill" ELSE "hit"

\* RedisCache.GetBalance's branch on err: if err == redis.Nil {refill}
\* else if err != nil {panic(err)} else {hit}
LookupBranch(err) ==
    IF err = "redis.Nil" THEN "refill"
    ELSE IF err # "nil" THEN "panic"
    ELSE "hit"

\* getBalance when the lookup gets no answer from redis: RedisCache.GetBalance
\* panics before it reads the store or writes the cache; net/http recovers
\* the panic and drops the connection, so the handler writes no balance.
GetBalanceLookupFails(p) ==
    /\ CanBegin(p)
    /\ config = "prod"
    /\ \E userID \in Clients :
          LET r   == MethodCheck("GET", "GET")
              rq  == [handler |-> "getBalance", method |-> "GET",
                      userID |-> userID, body |-> None]
              so  == \A q \in Procs \ {p} : Idle(q)
              res == GetResult(redis, makeKey(userID), "down")
          IN  IF LookupBranch(res.err) = "panic"
              THEN /\ last' = Returned(p, rq, r, 0, {}, so, FALSE)
                   /\ solo' = [q \in Procs |-> FALSE]
                   /\ UNCHANGED <<pc, req, resp>>
              ELSE IF LookupBranch(res.err) = "refill"
              THEN /\ req' = [req EXCEPT ![p] = rq]
                   /\ resp' = [resp EXCEPT ![p] = r]
                   /\ pc' = [pc EXCEPT ![p] = "miss"]
                   /\ solo' = SoloAfter(p, TRUE)
                   /\ last' = NoLast
              ELSE /\ last' = Returned(p, rq, writeJSON(r, Marshal(Unmarshal(res.val))),
                                       0, {}, so, FALSE)
                   /\ solo' = [q \in Procs |-> FALSE]
                   /\ UNCHANGED <<pc, req, resp>>
    /\ UNCHANGED <<ledgerVars, userVars, config, store, entries, redis, balance, created, seen>>

FaultNext == Next \/ (\E p \in Procs : GetBalanceLookupFails(p))

\* main.go's wiring: NewPgDatabase + NewRedisCache.
FaultInit ==
    /\ history = <<>>
    /\ balances = None
    /\ config = "prod"
    /\ store = <<>>
    /\ entries = <<>>
    /\ redis = <<>>
    /\ pc = [p \in Procs |-> "idle"]
    /\ req = [p \in Procs |-> NoRequest]
    /\ balance = [p \in Procs |-> None]
    /\ resp = [p \in Procs |-> NoResponse]
    /\ created = [p \in Procs |-> 0]
    /\ seen = [p \in Procs |-> {}]
    /\ solo = [p \in Procs |-> FALSE]
    /\ last = NoLast
    /\ dbUsers = TestUsers(config)
    /\ ret = None

FaultSpec == FaultInit /\ [][FaultNext]_vars

(***************************************************************************)
(* Claims about the ledger                                                 *)
(***************************************************************************)
DebtSum(debts) == SeqSum([i \in DOMAIN debts |-> debts[i].Amount])

RECURSIVE SumOver(_, _)
SumOver(f, S) ==
    IF S = {} THEN 0
    ELSE LET x == CHOOSE y \in S : TRUE IN f[x] + SumOver(f, S \ {x})

\* C1: over every history of well-formed expenses (the owner is a
\* participant, nobody is listed twice) the balances of all users, as
\* CalculateBalance computes them, add up to 0.
C1_BalancesSumToZero ==
    balances # None =>
        SumOver([u \in Users |-> balances[u].Balance], Users) = 0

\* C1 witness: balances were computed from a history of MaxHistory expenses
\* and some user's balance is not 0.
C1_Witness ==
    /\ balances # None
    /\ Len(history) = MaxHistory
    /\ \E u \in Users : balances[u].Balance > 0
    /\ \E u \in Users : balances[u].Balance < 0

\* C10: in every Balance CalculateBalance returns, the net total is the sum
\* of the credit amounts minus the sum of the debit amounts.
C10_NetIsCreditMinusDebit ==
    balances # None =>
        \A u \in Users :
            balances[u].Balance =
                DebtSum(balances[u].Credit) - DebtSum(balances[u].Debit)

\* C10 witness: a computed Balance with an entry in its debit list and an
\* entry in its credit list.
C10_Witness ==
    /\ balances # None
    /\ \E u \in Users : balances[u].Debit # <<>> /\ balances[u].Credit # <<>>

(***************************************************************************)
(* Claims about the cache and the handlers                                 *)
(***************************************************************************)
\* The Balance the cache holds for user u, None when it holds none.
CacheEntry(u) ==
    IF config = "test"
    THEN IF u \in DOMAIN entries THEN entries[u] ELSE None
    ELSE IF makeKey(u) \in DOMAIN redis
         THEN Unmarshal(redis[makeKey(u)].value) ELSE None

\* What the cache stores under u's key, expiry included.
RawEntry(u) ==
    IF config = "test"
    THEN IF u \in DOMAIN entries THEN entries[u] ELSE None
    ELSE IF makeKey(u) \in DOMAIN redis THEN redis[makeKey(u)] ELSE None

\* CalculateBalance(exps, u) with its lists in ascending order of user.
Reference(exps, u) == CalculateBalance(exps, u, [i \in 1..NumUsers |-> i])

\* Equal Balances, whatever the order of the debit and of the credit list
\* (the order of a Go map's iteration).
SameBalance(a, b) ==
    /\ a.Balance = b.Balance
    /\ Len(a.Debit) = Len(b.Debit) /\ Range(a.Debit) = Range(b.Debit)
    /\ Len(a.Credit) = Len(b.Credit) /\ Range(a.Credit) = Range(b.Credit)

\* The expenses of st a store read with the ExpenseIDs ids returned.
Sub(st, ids) == SelectSeq(st, LAMBDA e : e.ExpenseID \in ids)

\* The step just taken returned a successful postExpenses / a getBalance.
PostReturned == last.req.handler = "postExpenses" /\ last.resp.code = StatusCreated
GetReturned == last.req.handler = "getBalance" /\ last.slot # 0

\* The Balance in the body of the response l records.
ReturnedBalance(l) == Unmarshal(l.resp.body[Len(l.resp.body)])

\* C2: when a postExpenses call by user u has succeeded with no other request
\* running at the same time, the cache entry of u is CalculateBalance over
\* all stored expenses, the new one included; the cache was written after the
\* store append (the new expense is in the store and in the read the balance
\* was computed from); and a getBalance(u) that follows at once returns that
\* balance.
C2_SoloWriteThrough ==
    /\ [](PostReturned /\ last.solo =>
            LET u == last.req.userID IN
            /\ CacheEntry(u) # None
            /\ SameBalance(CacheEntry(u), Reference(store, u))
            /\ last.created \in IDs(store)
            /\ last.created \in last.seen)
    /\ [][(/\ PostReturned /\ last.solo
           /\ GetReturned'
           /\ last'.req.userID = last.req.userID)
          => ReturnedBalance(last') = CacheEntry(last.req.userID)]_vars

\* C2 witness: a postExpenses call that ran alone has just returned 201 for
\* the second expense of the store, and its user's balance is not 0.
C2_Witness ==
    /\ PostReturned /\ last.solo
    /\ Len(store) = 2 /\ last.created = 2
    /\ CacheEntry(last.req.userID) # None
    /\ CacheEntry(last.req.userID).Balance # 0

\* C3 (as claimed): a getBalance(u) that runs alone and finds no entry for u,
\* while the store holds an expense u takes part in, returns CalculateBalance
\* over the stored expenses, and the cache holds that balance afterwards;
\* for InMemoryCache as for RedisCache.
C3_MissReadsThrough ==
    (/\ GetReturned /\ last.miss /\ last.solo
     /\ \E i \in DOMAIN store : userTookPart(store[i], last.req.userID))
    => LET u == last.req.userID IN
       /\ SameBalance(ReturnedBalance(last), Reference(store, u))
       /\ CacheEntry(u) # None
       /\ SameBalance(CacheEntry(u), Reference(store, u))

\* The Balance the latest SetBalance wrote for u, while that write's TTL has
\* not elapsed and no other SetBalance for u has occurred; None otherwise.
LatestPut(u) ==
    IF config = "test"
    THEN IF u \in DOMAIN entries THEN entries[u] ELSE None
    ELSE IF makeKey(u) \in DOMAIN redis /\ redis[makeKey(u)].put # None
         THEN Unmarshal(redis[makeKey(u)].put.value) ELSE None

\* C4 (as claimed): after SetBalance(b, u), while its TTL has not elapsed and
\* no other SetBalance for u has occurred, every GetBalance(u) that begins
\* returns b (the order of its lists aside), without reading the expense
\* store.
C4_Original ==
    [][\A u \in Users :
         (/\ LatestPut(u) # None
          /\ GetReturned' /\ last'.req.userID = u /\ ~last'.miss)
         => /\ SameBalance(ReturnedBalance(last'), LatestPut(u))
            /\ last'.seen = {}]_vars

\* No postExpenses request is being served or has just been answered.
NoSubmission ==
    /\ last.req.handler # "postExpenses"
    /\ \A p \in Procs : req[p].handler # "postExpenses"

\* C5 (as claimed): a stale cached balance does not persist: once no further
\* expenses are submitted, from some moment on every getBalance(u) that
\* returns returns CalculateBalance over the complete expense store.
C5_StaleCannotPersist ==
    <>[]NoSubmission =>
        <>[](GetReturned =>
                SameBalance(ReturnedBalance(last),
                            Reference(store, last.req.userID)))

\* C6: the cache entry a postExpenses call leaves for its user u is the
\* balance that call computed from its own store read, with a fresh TTL,
\* whatever entry was there and whatever the store holds by then; so of two
\* concurrent calls by u the SetBalance that executes last decides the entry.
C6_LastWriteWins ==
    PostReturned =>
        LET u == last.req.userID IN
        /\ CacheEntry(u) # None
        /\ SameBalance(CacheEntry(u), Reference(Sub(store, last.seen), u))
        /\ config = "prod" => redis[makeKey(u)].ttl = FreshTTL

\* C6 witness: two concurrent postExpenses calls by the same user have both
\* finished, both expenses are in the store, and the entry the last
\* SetBalance left omits one of them.
C6_Witness ==
    /\ PostReturned /\ ~last.solo
    /\ \A p \in Procs : Idle(p)
    /\ Len(store) = 2
    /\ \A i \in DOMAIN store : store[i].OwnerID = last.req.userID
    /\ last.seen # IDs(store)
    /\ makeKey(last.req.userID) \in DOMAIN redis
    /\ ~SameBalance(CacheEntry(last.req.userID),
                    Reference(store, last.req.userID))

\* Slots p and q run postExpenses calls whose expenses share a user.
Touching(p, q) ==
    /\ p # q
    /\ created[p] # 0 /\ created[q] # 0
    /\ Range(store[created[p]].Users) \cap Range(store[created[q]].Users) # {}

\* C7 (amended): a postExpenses call computes its balance from a store read
\* that contains its own expense and every expense committed before it; so
\* of two concurrent calls, only the one whose expense was committed first
\* can read without the other's expense, never both.
C7_ReadsHoldEarlierExpenses ==
    /\ \A p \in Procs : pc[p] = "computed" => 1..created[p] \subseteq seen[p]
    /\ PostReturned => 1..last.created \subseteq last.seen
    /\ \A p, q \in Procs :
          (Touching(p, q) /\ pc[p] = "computed" /\ pc[q] = "computed")
          => created[q] \in seen[p] \/ created[p] \in seen[q]

\* C7 witness: two concurrent postExpenses calls touching the same user have
\* both computed their balance, one of them from a read without the other's
\* expense.
C7_Witness ==
    \E p, q \in Procs :
        /\ Touching(p, q)
        /\ pc[p] = "computed" /\ pc[q] = "computed"
        /\ created[q] \notin seen[p]

\* C7 (as claimed): when one of two concurrent postExpenses calls touching
\* the same user has computed from a read without the other's expense, the
\* other call, yet to read, can read the store without the first one's
\* expense as well.
C7_Original ==
    \A p, q \in Procs :
        (/\ Touching(p, q)
         /\ pc[p] = "computed" /\ created[q] \notin seen[p]
         /\ pc[q] = "created")
        => \E exps \in GetExpenses(config, store, req[q].userID) :
              created[p] \notin IDs(exps)

\* The user the step acts for: the user of the request that returns in the
\* step, or of the request whose handler moves on.
Acting(u) ==
    \/ last'.slot # 0 /\ last'.req.userID = u
    \/ last'.slot = 0 /\ \E p \in Procs : pc'[p] # pc[p] /\ req'[p].userID = u

\* C8: a step of postExpenses or getBalance (its miss refill included) for
\* user u leaves what the cache stores for every other user unchanged, the
\* other participants of a new expense included.
C8_OnlyOwnEntryChanges ==
    [][\A u \in Users :
         Acting(u) => \A v \in Users \ {u} : RawEntry(v)' = RawEntry(v)]_vars

\* C8 witness: a postExpenses call has just returned, another participant of
\* its expense has a cache entry, and that entry lacks the new expense.
C8_Witness ==
    /\ PostReturned
    /\ \E v \in Range(store[last.created].Users) \ {last.req.userID} :
          /\ CacheEntry(v) # None
          /\ ~SameBalance(CacheEntry(v), Reference(store, v))
          /\ SameBalance(CacheEntry(v),
                         Reference(SubSeq(store, 1, last.created - 1), v))

\* C9: every cache entry of a user u is the whole Balance CalculateBalance
\* returns for u on some prefix of the expense log (the log as it was at an
\* earlier moment).
C9_EntryIsBalanceOfPrefix ==
    \A u \in Users :
        CacheEntry(u) # None =>
            \E n \in 0..Len(store) :
                SameBalance(CacheEntry(u), Reference(SubSeq(store, 1, n), u))

\* C9 witness: the store holds two expenses u takes part in and u's entry is
\* the balance of the first alone, which is neither 0 nor the balance of the
\* second alone.
C9_Witness ==
    \E u \in Users :
        /\ Len(store) = 2
        /\ \A i \in DOMAIN store : userTookPart(store[i], u)
        /\ CacheEntry(u) # None
        /\ SameBalance(CacheEntry(u), Reference(SubSeq(store, 1, 1), u))
        /\ ~SameBalance(CacheEntry(u), Reference(store, u))
        /\ ~SameBalance(CacheEntry(u), Reference(SubSeq(store, 2, 2), u))

(***************************************************************************)
(* Claims about the ledger's scenarios, its output lists and its inputs    *)
(***************************************************************************)
\* The same expenses in every order the caller may hand them over.
Reorderings(exps) ==
    {[i \in DOMAIN exps |-> exps[f[i]]] : f \in Orderings(DOMAIN exps)}

\* The users of the Debts of a list, in the list's order.
Counterparties(debts) == [i \in DOMAIN debts |-> debts[i].UserID]

NoRepeat(s) == \A i, j \in DOMAIN s : s[i] = s[j] => i = j

\* userID takes part in none of the expenses.
Outsider(exps, userID) == \A i \in DOMAIN exps : userID \notin Range(exps[i].Users)

\* The ledger test's expenses: user 1 pays 42 split between users 1, 2, 3;
\* user 2 pays 8 split between users 1, 2.
meal(id) == Expense(id, 1, <<1, 2, 3>>, 42)
coffee(id) == Expense(id, 2, <<1, 2>>, 8)

\* A Balance of the test's tables: amounts as the test writes them.
Expected(net, debit, credit) ==
    [Balance |-> net * Scale,
     Debit   |-> [i \in DOMAIN debit |-> Debt(debit[i][1], debit[i][2] * Scale)],
     Credit  |-> [i \in DOMAIN credit |-> Debt(credit[i][1], credit[i][2] * Scale)]]

\* C11: CalculateBalance returns the same Balance (net total, debit entries,
\* credit entries) for the expenses in every order: the Balance of every
\* permutation of the history equals the Balance computed from the history.
C11_PermutationInvariant ==
    balances # None =>
        \A exps \in Reorderings(history) : \A u \in Users :
            SameBalance(Reference(exps, u), balances[u])

\* C11 witness: balances computed from two different expenses with
\* different owners that share a participant who owes or is owed money.
C11_Witness ==
    /\ balances # None
    /\ Len(history) >= 2
    /\ history[1].OwnerID # history[2].OwnerID
    /\ history[1].Amount # history[2].Amount
    /\ \E u \in Users :
          /\ userTookPart(history[1], u) /\ userTookPart(history[2], u)
          /\ balances[u].Balance # 0

\* C12: in every Balance CalculateBalance returns, no counterparty is twice
\* in the debit list or twice in the credit list, and the subject is in
\* neither list.
C12_OneEntryPerCounterparty ==
    balances # None =>
        \A u \in Users :
            /\ NoRepeat(Counterparties(balances[u].Debit))
            /\ NoRepeat(Counterparties(balances[u].Credit))
            /\ u \notin Range(Counterparties(balances[u].Debit))
            /\ u \notin Range(Counterparties(balances[u].Credit))

\* C12 witness: two expenses between the same two users, one paid by each,
\* and the Balance of one of them has a single entry for the other.
C12_Witness ==
    /\ balances # None
    /\ Len(history) >= 2
    /\ \E u, v \in Users :
          /\ u # v
          /\ history[1].OwnerID = u /\ userTookPart(history[1], v)
          /\ history[2].OwnerID = v /\ userTookPart(history[2], u)
          /\ Len(SelectSeq(Counterparties(balances[u].Debit) \o
                           Counterparties(balances[u].Credit),
                           LAMBDA x : x = v)) = 1

C14_MealAndCoffee ==
    (balances # None /\ history = <<meal(1), coffee(2)>>) =>
        /\ SameBalance(balances[1], Expected(24, <<>>, <<<<2, 10>>, <<3, 14>>>>))
        /\ SameBalance(balances[2], Expected(0 - 10, <<<<1, 10>>>>, <<>>))
        /\ SameBalance(balances[3], Expected(0 - 14, <<<<1, 14>>>>, <<>>))

\* C14 witness: the balances were computed from the history meal, coffee.
C14_Witness == balances # None /\ history = <<meal(1), coffee(2)>>

\* C15: for the history meal alone the Balances are: user 1 28 with credit
\* {2: 14, 3: 14} and no debit; users 2 and 3 each -14 with debit {1: 14}
\* and no credit.
C15_MealAlone ==
    (balances # None /\ history = <<meal(1)>>) =>
        /\ SameBalance(balances[1], Expected(28, <<>>, <<<<2, 14>>, <<3, 14>>>>))
        /\ SameBalance(balances[2], Expected(0 - 14, <<<<1, 14>>>>, <<>>))
        /\ SameBalance(balances[3], Expected(0 - 14, <<<<1, 14>>>>, <<>>))

\* C15 witness: the balances were computed from the history meal.
C15_Witness == balances # None /\ history = <<meal(1)>>

\* C16: a user who takes part in none of the expenses of the history, the
\* empty history included, gets net total 0, an empty debit list and an
\* empty credit list.
C16_OutsiderGetsZero ==
    balances # None =>
        \A u \in Users :
            Outsider(history, u) =>
                /\ balances[u].Balance = 0
                /\ balances[u].Debit = <<>>
                /\ balances[u].Credit = <<>>

\* C16 witness: balances computed from MaxHistory expenses, none of which
\* some user takes part in.
C16_Witness ==
    /\ balances # None
    /\ Len(history) = MaxHistory
    /\ \E u \in Users : Outsider(history, u)

\* C20: two calls of CalculateBalance with the same expenses and the same
\* userID return the same Balance, with the same debit list and the same
\* credit list, and the call leaves the expenses as they were.
C20_Deterministic ==
    /\ [](balances # None =>
            \A u \in Users : \A b \in CalculateBalances(history, u) :
                b = balances[u])
    /\ [][balances' # None => history' = history]_vars

(***************************************************************************)
(* Claims about the expense store                                          *)
(***************************************************************************)
\* Slot p reads the store in this step: dbh.GetExpenses in postExpenses or
\* in RedisCache.GetBalance's miss path.
ReadsStore(p) ==
    /\ pc[p] \in {"created", "miss"}
    /\ pc'[p] \in {"computed", "refill"}

\* The user ids of a request body's user list.
Others(body) == {body.Users[i].ID : i \in DOMAIN body.Users}

\* C17: once CreateExpense has returned, every GetExpenses call that starts
\* afterwards, by the same or another caller, returns that expense: every
\* store read returns all the expenses the store holds when it is made.
C17_ReadsSeeCreatedExpenses ==
    [][\A p \in Procs : ReadsStore(p) => IDs(store) \subseteq seen'[p]]_vars

\* C17 witness: a getBalance miss has read the store and found the
\* expenses that two earlier postExpenses calls created.
C17_Witness ==
    \E p \in Procs : pc[p] = "refill" /\ Cardinality(seen[p]) = MaxExpenses

\* C18: after any sequence of postExpenses requests every stored expense
\* has the participants {owner} and the submitted other users, the owner and
\* each other user once: every stored list holds the owner once and nobody
\* twice, and the list stored by a request is the submitter with the users
\* of the request's body.
C18_StoredParticipants ==
    /\ [](\A i \in DOMAIN store : WellFormed(store[i]) /\ Len(store[i].Users) >= 2)
    /\ [][Len(store') > Len(store) =>
            \E p \in Procs :
               /\ created'[p] = Len(store')
               /\ store'[Len(store')].OwnerID = req'[p].userID
               /\ Range(store'[Len(store')].Users) =
                     {req'[p].userID} \cup Others(req'[p].body)
               /\ Len(store'[Len(store')].Users) =
                     1 + Cardinality(Others(req'[p].body))]_vars

\* C18 witness: the store holds an expense and a request naming the
\* submitter or a user twice among the others has just been rejected.
C18_Witness ==
    /\ Len(store) >= 1
    /\ last # NoLast
    /\ last.resp.code = StatusBadRequest
    /\ last.req.body # None
    /\ \/ last.req.userID \in Others(last.req.body)
       \/ Cardinality(Others(last.req.body)) < Len(last.req.body.Users)

\* C19: the store is append-only: no step removes, reorders or changes an
\* expense that is stored.
C19_AppendOnly ==
    [][/\ Len(store') >= Len(store)
       /\ SubSeq(store', 1, Len(store)) = store]_vars

\* C19 witness: the store holds MaxExpenses expenses, they have been read
\* and a balance computed from them has been cached.
C19_Witness ==
    /\ Len(store) = MaxExpenses
    /\ \E u \in Users : CacheEntry(u) # None
    /\ last # NoLast /\ Cardinality(last.seen) = MaxExpenses

(***************************************************************************)
(* Claims about one more expense and about pairs of users                  *)
(***************************************************************************)
\* amount * num / den in units of 1/Scale; exact when den divides Scale.
Fraction(amount, num, den) == (amount * Scale * num) \div den

\* What v owes u by expense e alone: positive when u paid and v took part,
\* negative when v paid and u took part, 0 otherwise.
Owed(e, u, v) ==
    IF e.OwnerID = u /\ v \in Range(e.Users)
    THEN Fraction(e.Amount, 1, Len(e.Users))
    ELSE IF e.OwnerID = v /\ u \in Range(e.Users)
    THEN 0 - Fraction(e.Amount, 1, Len(e.Users))
    ELSE 0

\* Some expense of exps creates a debt between u and v.
Exposed(exps, u, v) == \E i \in DOMAIN exps : Owed(exps[i], u, v) # 0

\* What v owes u over exps, netted.
NetOwed(exps, u, v) == SeqSum([i \in DOMAIN exps |-> Owed(exps[i], u, v)])

\* The history without its newest expense.
Earlier(exps) == SubSeq(exps, 1, Len(exps) - 1)

\* C23: appending one expense of amount a with n participants to a history
\* changes the net Balance by +(n-1)*a/n for the owner and by -a/n for every
\* other participant, and leaves the Balance (net, debit, credit) of every
\* user who does not take part as it was.
C23_OneMoreExpense ==
    (balances # None /\ history # <<>>) =>
        LET e == history[Len(history)]
            n == Len(e.Users)
        IN  \A u \in Users :
               LET before == Reference(Earlier(history), u)
               IN  IF u = e.OwnerID
                   THEN balances[u].Balance =
                            before.Balance + Fraction(e.Amount, n - 1, n)
                   ELSE IF u \in Range(e.Users)
                   THEN balances[u].Balance =
                            before.Balance - Fraction(e.Amount, 1, n)
                   ELSE SameBalance(balances[u], before)

\* C23 witness: balances computed after an expense was appended to a
\* non-empty history in which the users who now stay out had debts.
C23_Witness ==
    /\ balances # None
    /\ Len(history) >= 2
    /\ \E u \in Users :
          /\ u \notin Range(history[Len(history)].Users)
          /\ balances[u].Balance # 0

\* C24: for every history and every two distinct users A and B, A's debit
\* list holds (B, x) with x > 0 exactly when B's credit list holds (A, x),
\* and B is never in both the debit and the credit list of A.
C24_PairwiseAgreement ==
    balances # None =>
        \A A, B \in Users :
            A # B =>
                /\ \A x \in {d.Amount : d \in Range(balances[A].Debit) \cup
                                             Range(balances[B].Credit)} :
                      x > 0 => (Debt(B, x) \in Range(balances[A].Debit)
                                  <=> Debt(A, x) \in Range(balances[B].Credit))
                /\ ~(/\ B \in Range(Counterparties(balances[A].Debit))
                     /\ B \in Range(Counterparties(balances[A].Credit)))

\* C24 witness: two users with expenses paid by each of them whose debts
\* net to a positive amount one owes the other.
C24_Witness ==
    /\ balances # None
    /\ \E A, B \in Users :
          /\ A # B
          /\ \E i, j \in DOMAIN history :
                Owed(history[i], A, B) > 0 /\ Owed(history[j], A, B) < 0
          /\ \E d \in Range(balances[A].Debit) : d.UserID = B /\ d.Amount > 0

\* C28: when the debts between the subject and a counterparty net to
\* exactly zero over the history, the counterparty is in the credit list
\* with amount 0 and not in the debit list; debit amounts are strictly
\* positive.
C28_ZeroIsCredit ==
    balances # None =>
        \A u \in Users :
            /\ \A v \in Users \ {u} :
                  (Exposed(history, u, v) /\ NetOwed(history, u, v) = 0) =>
                      /\ Debt(v, 0) \in Range(balances[u].Credit)
                      /\ v \notin Range(Counterparties(balances[u].Debit))
            /\ \A i \in DOMAIN balances[u].Debit : balances[u].Debit[i].Amount > 0

\* C28 witness: two users have paid the same share for each other, and
\* balances were computed.
C28_Witness ==
    /\ balances # None
    /\ \E u, v \in Users :
          u # v /\ Exposed(history, u, v) /\ NetOwed(history, u, v) = 0

(***************************************************************************)
(* Claims about requests the handlers reject                               *)
(***************************************************************************)
\* A decoded body that must not pass: empty description, amount <= 0,
\* unparsable created_at, empty user list, the submitter among the users,
\* or a user listed twice.
FailsValidation(body, userID) ==
    /\ body # None
    /\ \/ body.Description = ""
       \/ body.Amount <= 0
       \/ body.CreatedAt # GoodTime
       \/ body.Users = <<>>
       \/ userID \in Others(body)
       \/ Cardinality(Others(body)) < Len(body.Users)

\* The request that returns in this step was a postExpenses call.
PostReturns == last' # NoLast /\ last'.req.handler = "postExpenses"

\* The request that returns in this step also began in it.
OneStep == Idle(last'.slot)

\* C21: a postExpenses request that fails validation is answered with a
\* bad-request error and leaves the expense store and the cache unchanged.
\* The request is a POST; a request of another method is C27's subject.
C21_InvalidRejected ==
    [][(/\ PostReturns
        /\ last'.req.method = "POST"
        /\ FailsValidation(last'.req.body, last'.req.userID))
       => /\ last'.resp.code = StatusBadRequest
          /\ \E i \in DOMAIN last'.resp.body : "error" \in DOMAIN last'.resp.body[i]
          /\ OneStep
          /\ UNCHANGED <<store, entries, redis>>]_vars

\* C21 witness: an invalid POST has just been answered with bad request
\* while the store and the cache hold data it could have changed.
C21_Witness ==
    /\ last # NoLast
    /\ last.req.handler = "postExpenses"
    /\ last.req.method = "POST"
    /\ FailsValidation(last.req.body, last.req.userID)
    /\ last.resp.code = StatusBadRequest
    /\ store # <<>>
    /\ entries # <<>>

\* C27: a request to the expenses endpoint whose method is not POST is
\* rejected with method-not-allowed and changes neither the expense store
\* nor the cache: such a request returns in the step it begins in, with 405
\* and with the store and the cache as they were, and no request with
\* another method than POST is ever past the store append.
C27_NonPostRejected ==
    /\ [][(PostReturns /\ last'.req.method # "POST")
          => /\ last'.resp.code = StatusMethodNotAllowed
             /\ OneStep
             /\ UNCHANGED <<store, entries, redis>>]_vars
    /\ [](\A p \in Procs :
             (pc[p] \in {"created", "computed"}) => req[p].method = "POST")

(***************************************************************************)
(* Claims about RedisCache: hits, refills and the TTL                      *)
(***************************************************************************)
\* A getBalance call returns in this step from a hit in redis.
HitReturns ==
    /\ config = "prod"
    /\ last' # NoLast
    /\ last'.req.handler = "getBalance"
    /\ ~last'.miss

\* The step writes user u's key: the SetBalance of a postExpenses call or
\* the refill of a getBalance miss, both the last step of their request.
Writes(u) ==
    /\ last' # NoLast
    /\ last'.req.userID = u
    /\ ~Idle(last'.slot)

\* C26: a cache hit in GetBalance leaves the entry's stored value and its
\* expiry time unchanged, so a value is served for at most one TTL after it
\* was last written by SetBalance or by a miss refill: a hit changes nothing
\* in redis; only a write of the key raises an entry's ttl or changes its
\* value; no ttl is above one cacheEntryTTL; and every Tick lowers every
\* ttl, removing the entry when none is left.
C26_HitLeavesEntry ==
    /\ [][HitReturns => (OneStep /\ redis' = redis)]_vars
    /\ [][\A u \in Users :
            (/\ makeKey(u) \in DOMAIN redis
             /\ makeKey(u) \in DOMAIN redis'
             /\ \/ redis'[makeKey(u)].ttl > redis[makeKey(u)].ttl
                \/ redis'[makeKey(u)].value # redis[makeKey(u)].value)
            => Writes(u)]_vars
    /\ [](\A k \in DOMAIN redis : redis[k].ttl \in 1..FreshTTL)
    /\ [][Tick => \A k \in DOMAIN redis' : redis'[k].ttl < redis[k].ttl]_vars

\* C26 witness: a getBalance call has just been served from an entry that
\* has aged since it was written.
C26_Witness ==
    /\ config = "prod"
    /\ GetReturned /\ ~last.miss
    /\ makeKey(last.req.userID) \in DOMAIN redis
    /\ redis[makeKey(last.req.userID)].ttl < FreshTTL

\* No two postExpenses calls by the same user are running.
NoOverlap ==
    \A p, q \in Procs :
        (/\ p # q
         /\ pc[p] \in {"created", "computed"}
         /\ pc[q] \in {"created", "computed"})
        => req[p].userID # req[q].userID

\* The step is the refill of a getBalance miss by user u.
Refills(u) ==
    /\ config = "prod"
    /\ last' # NoLast
    /\ last'.req.handler = "getBalance"
    /\ last'.req.userID = u
    /\ last'.miss

\* User u's entry was written through by a postExpenses call, its TTL has
\* not run out, and it holds the balance of all stored expenses.
FreshWriteThrough(u) ==
    /\ makeKey(u) \in DOMAIN redis
    /\ redis[makeKey(u)].put # None
    /\ SameBalance(Unmarshal(redis[makeKey(u)].value), Reference(store, u))

\* C25: if user u's expense submissions never overlap each other, getBalance(u)
\* calls running concurrently with them cannot make u's cache entry omit an
\* expense whose postExpenses call has returned: a miss refill that finds
\* the entry written through with the balance of all stored expenses leaves
\* an entry with that balance.
C25_RefillKeepsFresher ==
    [][\A u \in Users :
          (NoOverlap /\ Refills(u) /\ FreshWriteThrough(u))
          => SameBalance(CacheEntry(u)', Reference(store', u))]_vars

\* C22: when the cache lookup in GetBalance fails with an error other than
\* key-absent, the request aborts: it ends in the step of the lookup (no
\* retry), no balance is returned, the expense store is not read and the
\* cache is not written.
C22_LookupFailureAborts ==
    [][(\E p \in Procs : GetBalanceLookupFails(p))
       => /\ last' # NoLast
          /\ last'.req.handler = "getBalance"
          /\ OneStep
          /\ last'.resp.body = <<>>
          /\ last'.seen = {}
          /\ UNCHANGED <<store, redis, seen, pc>>]_vars

\* C22 witness: a getBalance call has just aborted without a response while
\* the store holds expenses and redis an entry.
C22_Witness ==
    /\ last # NoLast
    /\ last.req.handler = "getBalance"
    /\ last.resp = NoResponse
    /\ store # <<>>
    /\ redis # <<>>

(***************************************************************************)
(* Claims about the user store                                             *)
(***************************************************************************)
\* C29: CreateUser with an email that already belongs to a stored user
\* returns ErrDuplicate and leaves the stored users unchanged, so after any
\* sequence of CreateUser calls no two stored users share an email.
C29_DuplicateEmailRejected ==
    /\ [][(ret' # None /\ ret'.called /\ ret'.email \in Emails(dbUsers.rows))
          => /\ ret'.err = ErrDuplicate
             /\ ret'.id = 0
             /\ dbUsers'.rows = dbUsers.rows]_vars
    /\ [](\A i, j \in DOMAIN dbUsers.rows :
             dbUsers.rows[i].Email = dbUsers.rows[j].Email => i = j)

\* C29 witness: a CreateUser call with a stored email has just returned
\* ErrDuplicate, the store holding users created by earlier calls.
C29_Witness ==
    /\ ret # None
    /\ ret.called
    /\ ret.err = ErrDuplicate
    /\ ret.email \in Emails(dbUsers.rows)
    /\ Len(dbUsers.rows) >= 2
    /\ dbUsers # TestUsers(config)

=============================================================================
